---------------------------- MODULE Spec2Model ----------------------------
(***************************************************************************)
(* Model of the blog title generator (blog/utils.py, blog/views.py).       *)
(*                                                                         *)
(* A Python str is modelled as a sequence of characters; a character is a  *)
(* one-character TLA+ string, except the four curly quotes, the backtick,  *)
(* the vertical tab and the four separators \x1c .. \x1f, which are the    *)
(* named characters "LSQUO", "RSQUO", "LDQUO", "RDQUO", "BTICK", "VT",     *)
(* "FS", "GS", "RS" and "US".  Other characters outside ASCII are not      *)
(* modelled.                                                               *)
(***************************************************************************)
EXTENDS Integers, Sequences, FiniteSets, TLC

(***************************************************************************)
(* Python str primitives                                                   *)
(***************************************************************************)
LowerLetters ==
    <<"a","b","c","d","e","f","g","h","i","j","k","l","m",
      "n","o","p","q","r","s","t","u","v","w","x","y","z">>

UpperLetters ==
    <<"A","B","C","D","E","F","G","H","I","J","K","L","M",
      "N","O","P","Q","R","S","T","U","V","W","X","Y","Z">>

Digits == <<"0","1","2","3","4","5","6","7","8","9">>

Range(s) == {s[i] : i \in DOMAIN s}

IsLower(c) == c \in Range(LowerLetters)

IsUpper(c) == c \in Range(UpperLetters)

IsLetter(c) == IsLower(c) \/ IsUpper(c)

\* the whitespace of str.strip(), str.split() and of \s in the re module,
\* over the characters of the model: space, tab, line feed, carriage return,
\* form feed, vertical tab ("VT") and the separators \x1c .. \x1f ("FS",
\* "GS", "RS", "US")
Whitespace == {" ", "\t", "\n", "\r", "\f", "VT", "FS", "GS", "RS", "US"}

\* \s of the re module; also the test of str.strip() and str.split()
IsSpace(c) == c \in Whitespace

\* \w of the re module, over the characters of the model
IsWordChar(c) == IsLetter(c) \/ c \in Range(Digits) \/ c = "_"

IndexIn(c, s) == CHOOSE i \in DOMAIN s : s[i] = c

\* str.upper() on one character
UpperChar(c) == IF IsLower(c) THEN UpperLetters[IndexIn(c, LowerLetters)] ELSE c

\* str.lower() on one character
LowerChar(c) == IF IsUpper(c) THEN LowerLetters[IndexIn(c, UpperLetters)] ELSE c

\* str.upper()
StrUpper(s) == [i \in 1..Len(s) |-> UpperChar(s[i])]

\* str.lower()
StrLower(s) == [i \in 1..Len(s) |-> LowerChar(s[i])]

\* str.capitalize(): first character upper-cased, the rest lower-cased
Capitalize(s) ==
    [i \in 1..Len(s) |-> IF i = 1 THEN UpperChar(s[i]) ELSE LowerChar(s[i])]

\* str.title(): a letter is upper-cased when it starts a run of letters and
\* lower-cased otherwise
StrTitle(s) ==
    [i \in 1..Len(s) |->
        IF i = 1 \/ ~IsLetter(s[i-1]) THEN UpperChar(s[i]) ELSE LowerChar(s[i])]

\* str.replace(old, new) for a one-character old and a string new
ReplaceChar(s, old, new) ==
    LET F[i \in 0..Len(s)] ==
            IF i = 0 THEN <<>>
            ELSE F[i-1] \o (IF s[i] = old THEN new ELSE <<s[i]>>)
    IN  IF \A i \in 1..Len(s) : s[i] # old THEN s ELSE F[Len(s)]

\* number of leading characters of s that satisfy IsSpace
RECURSIVE LeadingSpaces(_, _)
LeadingSpaces(s, i) ==
    IF i <= Len(s) /\ IsSpace(s[i]) THEN LeadingSpaces(s, i + 1) ELSE i - 1

\* index of the last character of s, at or before i, that is not in cs
RECURSIVE LastNotIn(_, _, _)
LastNotIn(s, i, cs) ==
    IF i >= 1 /\ s[i] \in cs THEN LastNotIn(s, i - 1, cs) ELSE i

\* str.strip()
Strip(s) ==
    LET a == LeadingSpaces(s, 1)
        b == LastNotIn(s, Len(s), Whitespace)
    IN  IF a >= b THEN <<>> ELSE SubSeq(s, a + 1, b)

\* str.rstrip('.')
RStripDots(s) == SubSeq(s, 1, LastNotIn(s, Len(s), {"."}))

\* re.sub(r'\s+', ' ', s): every run of whitespace becomes one space
CollapseSpaces(s) ==
    LET marked == [i \in 1..Len(s) |->
                     IF IsSpace(s[i])
                     THEN (IF i > 1 /\ IsSpace(s[i-1]) THEN "DROP" ELSE " ")
                     ELSE s[i]]
    IN  SelectSeq(marked, LAMBDA c : c # "DROP")

\* str.split(c) for a one-character separator: the pieces between the
\* occurrences of c, empty pieces kept
SplitOn(s, c) ==
    LET at == SelectSeq([k \in 1..Len(s) |-> IF s[k] = c THEN k ELSE 0],
                        LAMBDA k : k # 0)
    IN  [k \in 1..(Len(at) + 1) |->
            SubSeq(s, IF k = 1 THEN 1 ELSE at[k - 1] + 1,
                      IF k = Len(at) + 1 THEN Len(s) ELSE at[k] - 1)]

\* str.split(): pieces between runs of whitespace, no empty pieces
SplitWords(s) ==
    LET pieces == SplitOn([i \in 1..Len(s) |-> IF IsSpace(s[i]) THEN " " ELSE s[i]], " ")
    IN  SelectSeq(pieces, LAMBDA p : p # <<>>)

\* sep.join(words)
RECURSIVE Join(_, _)
Join(words, sep) ==
    IF words = <<>> THEN <<>>
    ELSE IF Len(words) = 1 THEN words[1]
    ELSE words[1] \o sep \o Join(Tail(words), sep)

\* str(n) for n >= 0
RECURSIVE IntToStr(_)
IntToStr(n) ==
    IF n < 10 THEN <<Digits[n + 1]>>
    ELSE IntToStr(n \div 10) \o <<Digits[(n % 10) + 1]>>

\* s[:n]
Prefix(s, n) == SubSeq(s, 1, IF n < Len(s) THEN n ELSE Len(s))

Min(a, b) == IF a < b THEN a ELSE b

Max(a, b) == IF a > b THEN a ELSE b

(***************************************************************************)
(* Python float (IEEE-754 binary64) arithmetic                             *)
(*                                                                         *)
(* A float is modelled exactly.  Every float the program computes is a     *)
(* multiple of 2^-56, so a float is the record [neg, bits]: bits are the   *)
(* binary digits, most significant first and without a leading 0, of the   *)
(* number of units of 2^-56 in its absolute value (<<>> is zero), and neg  *)
(* tells a negative float.  An operation computes the exact result and     *)
(* rounds it to 53 significant bits, ties to even, as the hardware does.   *)
(***************************************************************************)
\* the significand of a binary64 has 53 bits
SigBits == 53

\* the unit of the model is 2^-FracBits
FracBits == 56

\* extra quotient bits computed by a division before it is rounded
GuardBits == 8

\* the arithmetic works on groups of LimbBits digits
LimbBits == 16

Zeros(n) == [k \in 1..n |-> 0]

\* the digits without leading zeros
BitsTrim(b) ==
    LET ones == {k \in DOMAIN b : b[k] = 1}
    IN  IF ones = {} THEN <<>>
        ELSE SubSeq(b, CHOOSE k \in ones : \A j \in ones : k <= j, Len(b))

\* the digits of an integer n >= 0
RECURSIVE IntToBits(_)
IntToBits(n) == IF n = 0 THEN <<>> ELSE Append(IntToBits(n \div 2), n % 2)

\* the integer of the digits b
RECURSIVE BitsToInt(_)
BitsToInt(b) ==
    IF b = <<>> THEN 0 ELSE 2 * BitsToInt(SubSeq(b, 1, Len(b) - 1)) + b[Len(b)]

\* a < b, for digits without leading zeros
BitsLess(a, b) ==
    \/ Len(a) < Len(b)
    \/ /\ Len(a) = Len(b)
       /\ \E k \in 1..Len(a) : a[k] < b[k] /\ \A j \in 1..(k - 1) : a[j] = b[j]

\* the digits b as n limbs of LimbBits digits each, most significant first
ToLimbs(b, n) ==
    LET x == Zeros(n * LimbBits - Len(b)) \o b
    IN  [j \in 1..n |-> BitsToInt(SubSeq(x, (j - 1) * LimbBits + 1, j * LimbBits))]

\* the digits of the limbs l
FromLimbs(l) ==
    BitsTrim([k \in 1..(Len(l) * LimbBits) |->
                (l[((k - 1) \div LimbBits) + 1]
                    \div 2^(LimbBits - 1 - ((k - 1) % LimbBits))) % 2])

\* the number of limbs that hold the digits b
LimbCount(b) == (Len(b) + LimbBits - 1) \div LimbBits

\* a + 1
BitsIncrement(a) ==
    LET zeros == {k \in DOMAIN a : a[k] = 0}
    IN  IF zeros = {} THEN <<1>> \o Zeros(Len(a))
        ELSE LET z == CHOOSE k \in zeros : \A j \in zeros : j <= k
             IN  SubSeq(a, 1, z - 1) \o <<1>> \o Zeros(Len(a) - z)

\* a - b, for a >= b
BitsSub(a, b) ==
    LET n == LimbCount(a)
        x == ToLimbs(a, n)
        y == ToLimbs(b, n)
        borrow[j \in 1..(n + 1)] ==
            IF j = n + 1 THEN 0
            ELSE IF x[j] - y[j] - borrow[j + 1] < 0 THEN 1 ELSE 0
    IN  FromLimbs([j \in 1..n |->
                     (x[j] - y[j] - borrow[j + 1] + 2^LimbBits) % 2^LimbBits])

\* a * m, for an integer 0 <= m < 2^(LimbBits - 2)
BitsTimes(a, m) ==
    LET n == LimbCount(a) + 1
        x == ToLimbs(a, n)
        carry[j \in 1..(n + 1)] ==
            IF j = n + 1 THEN 0 ELSE (x[j] * m + carry[j + 1]) \div 2^LimbBits
    IN  FromLimbs([j \in 1..n |-> (x[j] * m + carry[j + 1]) % 2^LimbBits])

\* the quotient and the remainder of a divided by an integer
\* 0 < d < 2^(LimbBits - 2)
BitsDivMod(a, d) ==
    LET n == LimbCount(a)
        x == ToLimbs(a, n)
        rem[j \in 0..n] ==
            IF j = 0 THEN 0 ELSE (rem[j - 1] * 2^LimbBits + x[j]) % d
    IN  [quot |-> FromLimbs([j \in 1..n |->
                               (rem[j - 1] * 2^LimbBits + x[j]) \div d]),
         rem  |-> rem[n]]

\* round to nearest, ties to even: b keeps its first SigBits digits; sticky
\* tells that the exact value is above b
RoundSig(b, sticky) ==
    IF Len(b) <= SigBits THEN b
    ELSE LET keep == SubSeq(b, 1, SigBits)
             rest == SubSeq(b, SigBits + 1, Len(b))
             above == sticky \/ \E k \in 2..Len(rest) : rest[k] = 1
             up == rest[1] = 1 /\ (above \/ keep[SigBits] = 1)
         IN  (IF up THEN BitsIncrement(keep) ELSE keep) \o Zeros(Len(rest))

\* the float literal num/den (0.7 is FloatLiteral(7, 10)): the float nearest
\* to the quotient
FloatLiteral(num, den) ==
    LET d == BitsDivMod(IntToBits(num) \o Zeros(FracBits + GuardBits), den)
        r == RoundSig(d.quot, d.rem # 0)
    IN  [neg |-> FALSE, bits |-> SubSeq(r, 1, Len(r) - GuardBits)]

\* n * x for an int n >= 0 and a float x >= 0
IntTimesFloat(n, x) ==
    [neg |-> FALSE, bits |-> RoundSig(BitsTimes(x.bits, n), FALSE)]

\* x - y for floats x >= 0 and y >= 0
FloatSub(x, y) ==
    IF BitsLess(x.bits, y.bits)
    THEN [neg |-> TRUE, bits |-> RoundSig(BitsSub(y.bits, x.bits), FALSE)]
    ELSE [neg |-> FALSE, bits |-> RoundSig(BitsSub(x.bits, y.bits), FALSE)]

\* x < y
FloatLess(x, y) ==
    IF x.neg /\ y.neg THEN BitsLess(y.bits, x.bits)
    ELSE IF x.neg THEN TRUE
    ELSE IF y.neg THEN FALSE
    ELSE BitsLess(x.bits, y.bits)

\* x <= y
FloatLeq(x, y) == ~FloatLess(y, x)

\* max(x, y): the first argument unless the second is greater
FloatMax(x, y) == IF FloatLess(x, y) THEN y ELSE x

\* round(x, 2) for a float x >= 0: the float nearest to the multiple of 0.01
\* nearest to x, ties to even
Round2(x) ==
    LET p == BitsTimes(x.bits, 100)
        whole == BitsToInt(SubSeq(p, 1, Max(Len(p) - FracBits, 0)))
        frac == BitsTrim(SubSeq(p, Max(Len(p) - FracBits, 0) + 1, Len(p)))
        half == <<1>> \o Zeros(FracBits - 1)
        up == BitsLess(half, frac) \/ (frac = half /\ whole % 2 = 1)
    IN  FloatLiteral(whole + (IF up THEN 1 ELSE 0), 100)


(***************************************************************************)
(* Constants of utils.py                                                   *)
(***************************************************************************)
\* clean_content: "if len(content) > 800"
MaxContentChars == 800

\* generate_titles: "if len(cleaned_content.split()) < 10"
MinWords == 10

\* generate_titles: "for i in range(min(num_titles, 5))"
MaxAttempts == 5

\* _clean_title: always_caps, with the spellings of the source
AlwaysCaps ==
    {<<"A","I">>,
     <<"A","P","I">>,
     <<"M","L">>,
     <<"N","L","P">>,
     <<"I","o","T">>,
     <<"S","a","a","S">>,
     <<"C","E","O">>,
     <<"C","T","O">>,
     <<"I","T">>,
     <<"U","I">>,
     <<"U","X">>,
     <<"S","E","O">>,
     <<"R","O","I">>}

\* _clean_title: articles_prepositions
ArticlesPrepositions ==
    {<<"a">>,
     <<"a","n">>,
     <<"t","h","e">>,
     <<"a","n","d">>,
     <<"o","r">>,
     <<"b","u","t">>,
     <<"i","n">>,
     <<"o","n">>,
     <<"a","t">>,
     <<"t","o">>,
     <<"f","o","r">>,
     <<"o","f">>,
     <<"w","i","t","h">>,
     <<"b","y">>}

\* _rule_based_titles: templates, each as <<text before {}, text after {}>>
Templates ==
    <<<<<<"U","n","d","e","r","s","t","a","n","d","i","n","g"," ">>,
        <<>>>>,
      <<<<"A"," ","C","o","m","p","l","e","t","e"," ","G","u","i","d","e"," ","t","o"," ">>,
        <<>>>>,
      <<<<"E","v","e","r","y","t","h","i","n","g"," ","Y","o","u"," ","N","e","e","d"," ",
          "t","o"," ","K","n","o","w"," ","A","b","o","u","t"," ">>,
        <<>>>>,
      <<<<"T","h","e"," ","F","u","t","u","r","e"," ","o","f"," ">>,
        <<>>>>,
      <<<<"H","o","w"," ","t","o"," ","M","a","s","t","e","r"," ">>,
        <<>>>>,
      <<<<"T","h","e"," ","U","l","t","i","m","a","t","e"," ">>,
        <<" ","G","u","i","d","e">>>>,
      <<<<"E","x","p","l","o","r","i","n","g"," ">>,
        <<>>>>,
      <<<<"T","h","e"," ","P","o","w","e","r"," ","o","f"," ">>,
        <<>>>>,
      <<<<"W","h","y"," ">>,
        <<" ","M","a","t","t","e","r","s">>>>,
      <<<<"G","e","t","t","i","n","g"," ","S","t","a","r","t","e","d"," ","w","i","t","h"," ">>,
        <<>>>>>>

\* _create_smart_fallback_title: the words that are never important
SmartStopWords ==
    {<<"t","h","i","s">>,
     <<"t","h","a","t">>,
     <<"w","i","t","h">>,
     <<"h","a","v","e">>,
     <<"b","e","e","n">>,
     <<"w","i","l","l">>,
     <<"f","r","o","m">>,
     <<"t","h","e","y">>,
     <<"w","e","r","e">>,
     <<"s","a","i","d">>,
     <<"e","a","c","h">>,
     <<"w","h","i","c","h">>,
     <<"t","h","e","i","r">>,
     <<"w","o","u","l","d">>,
     <<"t","h","e","r","e">>,
     <<"c","o","u","l","d">>,
     <<"o","t","h","e","r">>}

\* _create_smart_fallback_title: fallback_patterns, the text before the words
FallbackPatternPrefixes ==
    <<<<"I","n","s","i","g","h","t","s"," ","o","n"," ">>,
      <<"U","n","d","e","r","s","t","a","n","d","i","n","g"," ">>,
      <<"A"," ","D","e","e","p"," ","D","i","v","e"," ","i","n","t","o"," ">>,
      <<"T","h","e"," ","I","m","p","a","c","t"," ","o","f"," ">>,
      <<"E","x","p","l","o","r","i","n","g"," ">>>>

\* _create_smart_fallback_title: "Blog Post #"
BlogPostPrefix == <<"B","l","o","g"," ","P","o","s","t"," ","#">>

\* _fallback_titles: basic_titles
BasicTitles ==
    <<<<"N","e","w"," ","B","l","o","g"," ","P","o","s","t">>,
      <<"L","a","t","e","s","t"," ","A","r","t","i","c","l","e">>,
      <<"F","r","e","s","h"," ","C","o","n","t","e","n","t">>,
      <<"R","e","c","e","n","t"," ","U","p","d","a","t","e">>,
      <<"N","e","w"," ","I","n","s","i","g","h","t","s">>>>

(***************************************************************************)
(* TitleGenerator.clean_content                                            *)
(***************************************************************************)
\* the two pairs of str.replace calls on the curly quotes
NormalizeQuotes(s) ==
    [i \in 1..Len(s) |->
        IF s[i] \in {"RSQUO", "LSQUO"} THEN "'"
        ELSE IF s[i] \in {"LDQUO", "RDQUO"} THEN "\""
        ELSE s[i]]

\* re.sub(r'[^\w\s.,!?-]', '', content)
StripSpecial(s) ==
    SelectSeq(s, LAMBDA c : IsWordChar(c) \/ IsSpace(c) \/ c \in {".", ",", "!", "?", "-"})

\* the for loop over the sentences: content grows by sentence + "." until the
\* next sentence would make it longer than the limit
RECURSIVE Reassemble(_, _, _)
Reassemble(sentences, k, acc) ==
    IF k > Len(sentences) THEN acc
    ELSE IF Len(acc \o sentences[k]) > MaxContentChars THEN acc
    ELSE Reassemble(sentences, k + 1, acc \o sentences[k] \o <<".">>)

\* the branch taken when the cleaned content is longer than the limit; the
\* variable content is reassigned to "" before the loop, so the hard
\* truncation content[:800] + "..." slices the emptied variable
TruncateContent(cleaned) ==
    LET content == Reassemble(SplitOn(cleaned, "."), 1, <<>>)
    IN  IF content = <<>>
        THEN Prefix(content, MaxContentChars) \o <<".", ".", ".">>
        ELSE content

\* the cleaned string before the length limit is applied
PreTruncation(content) ==
    StripSpecial(CollapseSpaces(Strip(NormalizeQuotes(content))))

clean_content(content) ==
    IF content = <<>> THEN <<>>
    ELSE LET cleaned == PreTruncation(content)
         IN  IF Len(cleaned) > MaxContentChars THEN TruncateContent(cleaned)
             ELSE cleaned

(***************************************************************************)
(* TitleGenerator._clean_title                                             *)
(***************************************************************************)
\* the casing of the word at 0-based position i
CleanWord(i, word) ==
    IF StrUpper(word) \in AlwaysCaps THEN StrUpper(word)
    ELSE IF i = 0 THEN Capitalize(word)
    ELSE IF StrLower(word) \in ArticlesPrepositions THEN StrLower(word)
    ELSE IF Len(word) > 3 THEN Capitalize(word)
    ELSE StrLower(word)

\* the title after the quote replacements, the whitespace collapse and
\* rstrip('.'), before it is split into words
TrimTitle(title) ==
    LET unquoted == ReplaceChar(ReplaceChar(ReplaceChar(title, "\"", <<>>),
                                            "'", <<"'">>), "BTICK", <<"'">>)
    IN  RStripDots(CollapseSpaces(Strip(unquoted)))

_clean_title(title) ==
    IF title = <<>> THEN <<>>
    ELSE LET words == SplitWords(TrimTitle(title))
         IN  IF words = <<>> THEN <<>>
             ELSE Join([k \in 1..Len(words) |-> CleanWord(k - 1, words[k])], <<" ">>)

(***************************************************************************)
(* The fallback tiers                                                      *)
(***************************************************************************)
\* a slip that drops the floor of the confidence of an AI title
AiConfidenceNoFloor(i) ==
    Round2(FloatSub(FloatLiteral(9, 10), IntTimesFloat(i, FloatLiteral(1, 10))))

\* confidence = max(0.9 - (i * 0.1), 0.6); 'confidence': round(confidence, 2)
AiConfidence(i) ==
    Round2(FloatMax(FloatSub(FloatLiteral(9, 10),
                             IntTimesFloat(i, FloatLiteral(1, 10))),
                    FloatLiteral(6, 10)))

\* 'confidence': 0.7 - (i * 0.1), not rounded
RuleConfidence(i) ==
    FloatSub(FloatLiteral(7, 10), IntTimesFloat(i, FloatLiteral(1, 10)))

\* 'confidence': 0.4
BasicFallbackConfidence == FloatLiteral(4, 10)

\* a slip that gives a smart-fallback title the confidence of a basic one
SmartConfidenceAsBasic == BasicFallbackConfidence

\* 'confidence': 0.6
SmartFallbackConfidence == FloatLiteral(6, 10)

Candidate(title, confidence, method) ==
    [title |-> title, confidence |-> confidence, method |-> method]

\* key_phrases: the title-cased windows of two words that are longer than 6
KeyPhrases(words) ==
    LET windows == [k \in 1..(IF Len(words) > 0 THEN Len(words) - 1 ELSE 0) |->
                      StrTitle(Join(SubSeq(words, k, k + 1), <<" ">>))]
    IN  SelectSeq(windows, LAMBDA p : Len(p) > 6)

_rule_based_titles(content, num_titles) ==
    LET key_phrases == KeyPhrases(SplitWords(content))
        n == Min(num_titles, Len(key_phrases))
        \* st[i]: titles and used_phrases after the iterations 0 .. i-1
        st[i \in 0..Max(n, 0)] ==
            IF i = 0 THEN [titles |-> <<>>, used |-> {}]
            ELSE LET prev == st[i - 1]
                     j == i - 1
                     phrase == key_phrases[j + 1]
                     template == Templates[(j % Len(Templates)) + 1]
                 IN  IF j < Len(key_phrases) /\ phrase \notin prev.used
                     THEN [titles |-> Append(prev.titles,
                                        Candidate(template[1] \o phrase \o template[2],
                                                  RuleConfidence(j), "rule_based")),
                           used |-> prev.used \cup {phrase}]
                     ELSE prev
    IN  st[Max(n, 0)].titles

\* important_words: of the first 20 words, the title-cased ones longer than 4
\* that are no stop words
ImportantWords(words) ==
    LET kept == SelectSeq(Prefix(words, 20),
                          LAMBDA w : Len(w) > 4 /\ StrLower(w) \notin SmartStopWords)
    IN  [k \in 1..Len(kept) |-> StrTitle(kept[k])]

_create_smart_fallback_title(content, index) ==
    LET important_words == ImportantWords(SplitWords(content))
        pattern_index == index % Len(FallbackPatternPrefixes)
        title == IF important_words # <<>>
                 THEN FallbackPatternPrefixes[pattern_index + 1]
                      \o Join(Prefix(important_words, 2), <<" ">>)
                 ELSE BlogPostPrefix \o IntToStr(index + 1)
    IN  Candidate(title, SmartFallbackConfidence, "smart_fallback")

\* one title of _fallback_titles, for the 0-based index i
BasicTitle(i) ==
    BasicTitles[(i % Len(BasicTitles)) + 1]
    \o (IF i >= Len(BasicTitles) THEN <<" ", "#">> \o IntToStr(i + 1) ELSE <<>>)

\* a slip that runs the loop of _fallback_titles once too often
FallbackTitlesOneMore(content, num_titles) ==
    [k \in 1..Max(num_titles + 1, 0) |->
        Candidate(BasicTitle(k - 1), BasicFallbackConfidence, "basic_fallback")]

\* range(num_titles) is empty for num_titles <= 0
_fallback_titles(content, num_titles) ==
    [k \in 1..Max(num_titles, 0) |->
        Candidate(BasicTitle(k - 1), BasicFallbackConfidence, "basic_fallback")]

(***************************************************************************)
(* Inputs of generate_titles                                               *)
(***************************************************************************)
\* 11 words
ContentBackbone ==
    <<"c","l","o","u","d"," ","s","e","r","v","e","r","s"," ","a","r","e",
      " ","t","h","e"," ","b","a","c","k","b","o","n","e"," ","o","f"," ",
      "m","o","d","e","r","n"," ","c","o","m","p","u","t","i","n","g"," ",
      "t","o","d","a","y"," ","a","n","d"," ","t","o","m","o","r","r","o",
      "w">>

\* 10 words, two distinct key phrases
ContentRepeated ==
    <<"c","l","o","u","d"," ","s","e","r","v","e","r","s"," ","c","l","o",
      "u","d"," ","s","e","r","v","e","r","s"," ","c","l","o","u","d"," ",
      "s","e","r","v","e","r","s"," ","c","l","o","u","d"," ","s","e","r",
      "v","e","r","s"," ","c","l","o","u","d"," ","s","e","r","v","e","r",
      "s">>

\* 10 words, no key phrase, no important word
ContentLetters ==
    <<"a"," ","b"," ","c"," ","d"," ","e"," ","f"," ","g"," ","h"," ","i",
      " ","j">>

\* 10 words, the example of the specification
ContentSpecExample ==
    <<"A"," ","s","u","f","f","i","c","i","e","n","t","l","y"," ","l","o",
      "n","g"," ","p","i","e","c","e"," ","o","f"," ","c","o","n","t","e",
      "n","t"," ","a","b","o","u","t"," ","c","l","o","u","d","s"," ","a",
      "n","d"," ","s","e","r","v","e","r","s",".">>

\* 11 words after cleaning
ContentNoisy ==
    <<" ","LDQUO","C","l","o","u","d","RDQUO"," "," ","s","e","r","v","e",
      "r","s",":"," ","a","r","e","\n","t","h","e"," ","@","b","a","c","k",
      "b","o","n","e"," ","o","f"," ","m","o","d","e","r","n"," ","c","o",
      "m","p","u","t","i","n","g"," ","t","o","d","a","y"," ","a","n","d",
      " ","t","o","m","o","r","r","o","w"," ">>

\* 8 words, the content of HealthCheckView.get
ContentHealthCheck ==
    <<"T","h","i","s"," ","i","s"," ","a"," ","t","e","s","t"," ","c","o",
      "n","t","e","n","t"," ","f","o","r"," ","h","e","a","l","t","h"," ",
      "c","h","e","c","k",".">>

\* 9 words
ContentNineWords ==
    <<"c","l","o","u","d"," ","s","e","r","v","e","r","s"," ","a","r","e",
      " ","t","h","e"," ","b","a","c","k","b","o","n","e"," ","o","f"," ",
      "m","o","d","e","r","n"," ","c","o","m","p","u","t","i","n","g"," ",
      "t","o","d","a","y">>

\* 2 words
ContentTwoWords ==
    <<"t","o","o"," ","s","h","o","r","t">>

\* 10 words between carriage returns, form feeds, vertical tabs and the
\* separators \x1c .. \x1f
ContentControlSpaces ==
    <<"\r","c","l","o","u","d","FS","s","e","r","v","e","r","s","\f","a",
      "r","e","VT","t","h","e","\r","GS","b","a","c","k","b","o","n","e",
      "RS","o","f","\f","m","o","d","e","r","n","VT","c","o","m","p","u",
      "t","i","n","g","\r","t","o","d","a","y","US","a","n","d","FS">>

Contents ==
    {<<>>, ContentBackbone,
     ContentControlSpaces,
     ContentRepeated,
     ContentLetters,
     ContentSpecExample,
     ContentNoisy,
     ContentHealthCheck,
     ContentNineWords,
     ContentTwoWords}

\* summary_text values the summarizer may return
\* equals a smart-fallback title of ContentBackbone once cleaned
RawUnderstanding ==
    <<" ","u","n","d","e","r","s","t","a","n","d","i","n","g"," ","c","l",
      "o","u","d"," ","s","e","r","v","e","r","s",".">>

\* equals another smart-fallback title once cleaned
RawInsights ==
    <<"i","n","s","i","g","h","t","s"," ","o","n"," ","c","l","o","u","d",
      " ","s","e","r","v","e","r","s">>

\* a fresh four-word title
RawFuture ==
    <<"t","h","e"," ","f","u","t","u","r","e"," ","o","f"," ","a","i">>

\* two words: rejected
RawTwoWords ==
    <<"c","l","o","u","d"," ","s","e","r","v","e","r","s",".">>

\* empty once cleaned: rejected
RawQuotedDot ==
    <<"\"",".","\"">>

RawTitles ==
    {RawUnderstanding,
     RawInsights,
     RawFuture,
     RawTwoWords,
     RawQuotedDot}

\* largest num_titles a call is made with
MaxNumTitles == 7

(***************************************************************************)
(* State                                                                   *)
(***************************************************************************)
VARIABLES
    content,          \* generate_titles: the argument content
    content_is_str,   \* whether the argument is a str (FALSE: an int such as 123)
    num_titles,       \* generate_titles: the argument num_titles
    summarizer,       \* TRUE: the pipeline was built; FALSE: self.summarizer is None
    pc,               \* position in generate_titles
    cleaned_content,  \* generate_titles: the local cleaned_content
    i,                \* generate_titles: the loop variable of the AI loop
    titles,           \* generate_titles: the local titles
    result,           \* the returned list
    calls,            \* how often the summarizer and each tier were called
    raw_title,        \* _clean_title: the argument title
    formatted,        \* _clean_title(raw_title)
    reformatted,      \* _clean_title(formatted)
    fmt_pc,           \* "start", "formatted", "reformatted"
    request,          \* SuggestTitlesView.post: request.data
    response,         \* the Response returned: status and success
    engine_calls,     \* the calls of title_generator.generate_titles made
    raw_content,      \* clean_content: the argument content
    clean_out,        \* clean_content(raw_content)
    clean_pc          \* "start", "done"

genVars == <<content, content_is_str, num_titles, summarizer, pc,
             cleaned_content, i, titles, result, calls>>

fmtVars == <<raw_title, formatted, reformatted, fmt_pc>>

viewVars == <<request, response, engine_calls>>

cleanVars == <<raw_content, clean_out, clean_pc>>

vars == <<genVars, fmtVars, viewVars, cleanVars>>

NoCalls == [model |-> 0, rule_based |-> 0, smart |-> 0, basic |-> 0]

GenIdle ==
    /\ content = <<>>
    /\ content_is_str = TRUE
    /\ num_titles = 0
    /\ summarizer = FALSE
    /\ pc = "idle"
    /\ cleaned_content = <<>>
    /\ i = 0
    /\ titles = <<>>
    /\ result = <<>>
    /\ calls = NoCalls

NoRequest == [has_content |-> FALSE, content |-> <<>>, max_suggestions |-> [kind |-> "absent", int |-> 0, text |-> <<>>]]

NoResponse == [status |-> 0, success |-> FALSE]

FmtIdle ==
    /\ raw_title = <<>>
    /\ formatted = <<>>
    /\ reformatted = <<>>
    /\ fmt_pc = "idle"

ViewIdle ==
    /\ request = NoRequest
    /\ response = NoResponse
    /\ engine_calls = <<>>

CleanIdle ==
    /\ raw_content = <<>>
    /\ clean_out = <<>>
    /\ clean_pc = "idle"

(***************************************************************************)
(* TitleGenerator.generate_titles                                          *)
(***************************************************************************)
\* s[:n] of a list, for any integer n
SliceTo(s, n) ==
    IF n >= 0 THEN Prefix(s, n) ELSE SubSeq(s, 1, Len(s) + n)

\* Python's == between the dict a tier returns and a str: never equal
DictEqualsStr(d, str) == FALSE

\* fallback not in [t['title'] for t in titles]
FallbackNotInTitles(fallback, ts) ==
    \A k \in 1..Len(ts) : ~DictEqualsStr(fallback, ts[k].title)

\* title not in [t['title'] for t in titles]
TitleNotInTitles(title, ts) ==
    \A k \in 1..Len(ts) : title # ts[k].title

\* the while loop after the AI loop; n counts the smart-fallback calls
RECURSIVE TopUp(_, _, _, _)
TopUp(cleaned, ts, num, n) ==
    IF Len(ts) < num
    THEN LET fallback == _create_smart_fallback_title(cleaned, Len(ts))
         IN  IF FallbackNotInTitles(fallback, ts)
             THEN TopUp(cleaned, Append(ts, fallback), num, n + 1)
             ELSE [titles |-> ts, smart |-> n + 1]
    ELSE [titles |-> ts, smart |-> n]

\* range(min(num_titles, 5)) is not exhausted
InAiLoop == pc = "ai_loop" /\ i < Min(num_titles, MaxAttempts)

\* the title the AI loop accepts for a summary_text, <<>> when it accepts none
AcceptedTitle(raw, ts) ==
    LET title == _clean_title(Strip(raw))
    IN  IF title # <<>> /\ Len(SplitWords(title)) >= 3 /\ TitleNotInTitles(title, ts)
        THEN title
        ELSE <<>>

\* a slip that counts characters where the code counts words
TooShortByChars(text) == Len(text) < MinWords

\* len(cleaned_content.split()) < 10
TooShort(text) == Len(SplitWords(text)) < MinWords

GenInit ==
    /\ content \in Contents
    /\ content_is_str \in BOOLEAN
    /\ num_titles \in 1..MaxNumTitles
    /\ summarizer \in BOOLEAN
    /\ pc = "start"
    /\ cleaned_content = <<>>
    /\ i = 0
    /\ titles = <<>>
    /\ result = <<>>
    /\ calls = NoCalls
    /\ FmtIdle /\ ViewIdle /\ CleanIdle

\* clean_content raises on a content that is no str (and is truthy): the outer
\* except returns _fallback_titles(content, num_titles)
OuterException ==
    /\ pc = "start"
    /\ ~content_is_str
    /\ result' = _fallback_titles(content, num_titles)
    /\ calls' = [calls EXCEPT !.basic = @ + 1]
    /\ pc' = "done"
    /\ UNCHANGED <<content, content_is_str, num_titles, summarizer,
                   cleaned_content, i, titles>>
    /\ UNCHANGED <<fmtVars, viewVars, cleanVars>>

\* fewer than 10 words: return self._fallback_titles(cleaned_content, num_titles)
ShortContent ==
    /\ pc = "start"
    /\ content_is_str
    /\ TooShort(clean_content(content))
    /\ cleaned_content' = clean_content(content)
    /\ result' = _fallback_titles(clean_content(content), num_titles)
    /\ calls' = [calls EXCEPT !.basic = @ + 1]
    /\ pc' = "done"
    /\ UNCHANGED <<content, content_is_str, num_titles, summarizer, i, titles>>
    /\ UNCHANGED <<fmtVars, viewVars, cleanVars>>

\* self.summarizer is None: return self._rule_based_titles(cleaned_content, num_titles)
ModelUnavailable ==
    /\ pc = "start"
    /\ content_is_str
    /\ ~TooShort(clean_content(content))
    /\ ~summarizer
    /\ cleaned_content' = clean_content(content)
    /\ result' = _rule_based_titles(clean_content(content), num_titles)
    /\ calls' = [calls EXCEPT !.rule_based = @ + 1]
    /\ pc' = "done"
    /\ UNCHANGED <<content, content_is_str, num_titles, summarizer, i, titles>>
    /\ UNCHANGED <<fmtVars, viewVars, cleanVars>>

\* titles = [] and the AI loop is entered
EnterAiLoop ==
    /\ pc = "start"
    /\ content_is_str
    /\ ~TooShort(clean_content(content))
    /\ summarizer
    /\ cleaned_content' = clean_content(content)
    /\ titles' = <<>>
    /\ i' = 0
    /\ pc' = "ai_loop"
    /\ UNCHANGED <<content, content_is_str, num_titles, summarizer, result, calls>>
    /\ UNCHANGED <<fmtVars, viewVars, cleanVars>>

\* the summarizer raises (or returns a malformed result): except ... continue
AiAttemptRaises ==
    /\ InAiLoop
    /\ calls' = [calls EXCEPT !.model = @ + 1]
    /\ i' = i + 1
    /\ UNCHANGED <<content, content_is_str, num_titles, summarizer, pc,
                   cleaned_content, titles, result>>
    /\ UNCHANGED <<fmtVars, viewVars, cleanVars>>

\* the summarizer returns an empty list
AiAttemptEmpty ==
    /\ InAiLoop
    /\ calls' = [calls EXCEPT !.model = @ + 1]
    /\ i' = i + 1
    /\ UNCHANGED <<content, content_is_str, num_titles, summarizer, pc,
                   cleaned_content, titles, result>>
    /\ UNCHANGED <<fmtVars, viewVars, cleanVars>>

\* the summarizer returns [{'summary_text': raw}]
AiAttemptTitle ==
    /\ InAiLoop
    /\ \E raw \in RawTitles :
          LET title == AcceptedTitle(raw, titles)
          IN  titles' = IF title # <<>>
                        THEN Append(titles, Candidate(title, AiConfidence(i), "ai"))
                        ELSE titles
    /\ calls' = [calls EXCEPT !.model = @ + 1]
    /\ i' = i + 1
    /\ UNCHANGED <<content, content_is_str, num_titles, summarizer, pc,
                   cleaned_content, result>>
    /\ UNCHANGED <<fmtVars, viewVars, cleanVars>>

\* the AI loop is over: the while loop tops the list up, titles[:num_titles]
\* is returned
TopUpAndReturn ==
    /\ pc = "ai_loop"
    /\ ~InAiLoop
    /\ LET top == TopUp(cleaned_content, titles, num_titles, 0)
       IN  /\ titles' = top.titles
           /\ calls' = [calls EXCEPT !.smart = @ + top.smart]
           /\ result' = SliceTo(top.titles, num_titles)
    /\ pc' = "done"
    /\ UNCHANGED <<content, content_is_str, num_titles, summarizer,
                   cleaned_content, i>>
    /\ UNCHANGED <<fmtVars, viewVars, cleanVars>>

GenNext ==
    \/ OuterException
    \/ ShortContent
    \/ ModelUnavailable
    \/ EnterAiLoop
    \/ AiAttemptRaises
    \/ AiAttemptEmpty
    \/ AiAttemptTitle
    \/ TopUpAndReturn

SpecGen == GenInit /\ [][GenNext]_vars

(***************************************************************************)
(* Properties of generate_titles, checked under SpecGen                    *)
(***************************************************************************)
Returned == pc = "done"

Methods(list) == {list[k].method : k \in 1..Len(list)}

\* the number of words of the cleaned content, for a str content
WordCount == Len(SplitWords(clean_content(content)))

\* C1: for num_titles in 1..5, no two candidates of the returned list have
\* the same title; a smart-fallback title that equals an accepted title is
\* not added.  The top-up compares the candidate dict with the title strings,
\* so it never finds a duplicate: the property fails.
C1_NoDuplicateTitles ==
    (Returned /\ num_titles \in 1..5) =>
        \A j, k \in 1..Len(result) : j # k => result[j].title # result[k].title

\* C2 as stated: for every num_titles >= 1, values above 5 included, the
\* returned list has at most num_titles candidates and at most 5 candidates.
C2_AtMostFiveAlways ==
    Returned => (Len(result) <= num_titles /\ Len(result) <= 5)

\* C2 as amended: for every num_titles >= 1 and on every path the returned
\* list has at most num_titles candidates, hence at most 5 when num_titles is
\* at most 5 (for a larger num_titles it may hold up to num_titles).
C2_AtMostNumTitles ==
    Returned => /\ Len(result) <= num_titles
                /\ (num_titles <= 5 => Len(result) <= 5)

\* C2 witness: a call with num_titles above 5 has returned that many titles
C2_Witness ==
    Returned /\ num_titles > 5 /\ Len(result) = num_titles

\* C3: with the summarizer unavailable and at least 10 words of cleaned
\* content, a call with num_titles in 1..5 returns exactly num_titles
\* candidates, none of method 'ai'.  The rule-based list is returned as it
\* is, without a top-up: the property fails when it is short.
C3_RuleBasedFillsUp ==
    (Returned /\ content_is_str /\ ~summarizer /\ WordCount >= 10
        /\ num_titles \in 1..5) =>
        (Len(result) = num_titles /\ "ai" \notin Methods(result))

\* C4 as stated: confidence is strictly ordered across the tiers: every
\* 'ai' candidate above every 'rule_based' confidence (0.7 - j * 0.1), every
\* 'rule_based' candidate above the smart-fallback confidence, every
\* 'smart_fallback' candidate above the basic-fallback confidence.
C4_StrictTierOrder ==
    (Returned /\ num_titles \in 1..5) =>
        \A k \in 1..Len(result) :
            LET c == result[k]
            IN  /\ c.method = "ai" =>
                      \A j \in 0..4 : FloatLess(RuleConfidence(j), c.confidence)
                /\ c.method = "rule_based" =>
                      FloatLess(SmartFallbackConfidence, c.confidence)
                /\ c.method = "smart_fallback" =>
                      FloatLess(BasicFallbackConfidence, c.confidence)

\* C4 as amended: for num_titles in 1..5, every 'ai' candidate has a
\* confidence of at least 0.6 and at most 0.9, so at least (not strictly
\* above) that of every 'smart_fallback' candidate, which is 0.6, and
\* strictly above that of every 'basic_fallback' candidate, which is 0.4;
\* every 'smart_fallback' candidate is strictly above every 'basic_fallback'
\* candidate; a 'rule_based' candidate has at most 0.7, which only the first
\* one of a response has, and only that first one is above the
\* smart-fallback confidence.
C4_TierOrderAmended ==
    (Returned /\ num_titles \in 1..5) =>
        \A k \in 1..Len(result) :
            LET c == result[k]
            IN  /\ c.method = "ai" =>
                      /\ FloatLeq(FloatLiteral(6, 10), c.confidence)
                      /\ FloatLeq(c.confidence, FloatLiteral(9, 10))
                      /\ FloatLeq(SmartFallbackConfidence, c.confidence)
                      /\ FloatLess(BasicFallbackConfidence, c.confidence)
                /\ c.method = "rule_based" =>
                      /\ FloatLeq(c.confidence, FloatLiteral(7, 10))
                      /\ (k = 1 <=> c.confidence = FloatLiteral(7, 10))
                      /\ (k = 1 <=> FloatLess(SmartFallbackConfidence, c.confidence))
                /\ c.method = "smart_fallback" =>
                      /\ c.confidence = FloatLiteral(6, 10)
                      /\ FloatLess(BasicFallbackConfidence, c.confidence)
                /\ c.method = "basic_fallback" =>
                      c.confidence = FloatLiteral(4, 10)

\* C4 witness: a response holds an 'ai' candidate and a 'smart_fallback'
\* candidate of the same confidence
C4_Witness ==
    /\ Returned /\ num_titles \in 1..5
    /\ \E j, k \in 1..Len(result) :
          /\ result[j].method = "ai" /\ result[k].method = "smart_fallback"
          /\ result[j].confidence = result[k].confidence

\* C5: within one response the confidences never increase in list order
C5_ConfidenceNonIncreasing ==
    Returned =>
        \A k \in 1..(Len(result) - 1) :
            FloatLeq(result[k + 1].confidence, result[k].confidence)

\* C5 witness: a response of AI titles with a gap between their confidences
\* (0.9 then 0.7: the attempt in between was skipped), topped up by a
\* smart-fallback title
C5_Witness ==
    /\ Returned /\ Len(result) >= 3
    /\ result[1].method = "ai" /\ result[2].method = "ai"
    /\ result[1].confidence = FloatLiteral(9, 10)
    /\ result[2].confidence = FloatLiteral(7, 10)
    /\ result[Len(result)].method = "smart_fallback"

\* C6: when the cleaned content has fewer than 10 words, generate_titles
\* calls neither the summarizer nor the rule-based nor the smart-fallback
\* tier, and returns exactly num_titles candidates, all 'basic_fallback'
C6_ShortContentSkipsModel ==
    (content_is_str /\ WordCount < 10) =>
        /\ calls.model = 0 /\ calls.rule_based = 0 /\ calls.smart = 0
        /\ Returned => /\ Len(result) = num_titles
                       /\ Methods(result) = {"basic_fallback"}

\* C6 witness: the 8 words of the health check, with the summarizer
\* available, have been answered by the basic fallback
C6_Witness ==
    /\ Returned /\ summarizer /\ content_is_str
    /\ content = ContentHealthCheck /\ num_titles = 3
    /\ Len(result) = 3 /\ calls.basic = 1

(***************************************************************************)
(* _clean_title applied to a title, then to its own output                 *)
(***************************************************************************)
\* longest title of the exhaustive inputs
MaxTitleLen == 4

TitleAlphabet == {"a", "i", "o", "s", "t", ".", " ", "\""}

ExampleGuide ==
    <<"t","h","e"," ","a","i"," ","g","u","i","d","e"," ","t","o"," ","s",
      "a","a","s">>

ExampleDots == <<"a", ".", " ", ".">>

ExampleAcronyms ==
    <<"S","a","a","S"," ","w","i","t","h"," ","s","e","o"," ","a","n","d",
      " ","I","o","T"," ","f","o","r"," ","t","h","e"," ","C","E","O">>

ExampleQuoted ==
    <<" ","BTICK","t","h","e","BTICK"," ","\"","q","u","i","c","k","\""," ",
      "f","o","x","."," ">>

\* words between carriage returns, form feeds, vertical tabs and separators
ExampleControlSpaces ==
    <<"FS","a","i","\r","\f","o","f","VT","i","o","t","GS","x",".","US">>

\* every string over TitleAlphabet of at most MaxTitleLen characters, and the
\* examples
TitleInputs ==
    UNION {[1..n -> TitleAlphabet] : n \in 0..MaxTitleLen}
    \cup {ExampleGuide, ExampleDots, ExampleAcronyms, ExampleQuoted,
          ExampleControlSpaces}

FmtInit ==
    /\ raw_title \in TitleInputs
    /\ formatted = <<>>
    /\ reformatted = <<>>
    /\ fmt_pc = "start"
    /\ GenIdle /\ ViewIdle /\ CleanIdle

\* title = self._clean_title(title)
FormatTitle ==
    /\ fmt_pc = "start"
    /\ formatted' = _clean_title(raw_title)
    /\ fmt_pc' = "formatted"
    /\ UNCHANGED <<raw_title, reformatted>>
    /\ UNCHANGED <<genVars, viewVars, cleanVars>>

\* _clean_title called on its own output
ReformatTitle ==
    /\ fmt_pc = "formatted"
    /\ reformatted' = _clean_title(formatted)
    /\ fmt_pc' = "reformatted"
    /\ UNCHANGED <<raw_title, formatted>>
    /\ UNCHANGED <<genVars, viewVars, cleanVars>>

FmtNext ==
    \/ FormatTitle
    \/ ReformatTitle

SpecFmt == FmtInit /\ [][FmtNext]_vars

\* C7: every token of the title whose upper-cased form equals the upper-cased
\* form of a member of the acronym set comes out as that member, in its
\* canonical spelling, at the same position.  The code looks the upper-cased
\* token up in the set and emits the upper-cased token, so 'saas' and 'iot'
\* never match 'SaaS' and 'IoT': the property fails.
C7_AcronymCasing ==
    fmt_pc = "formatted" =>
        LET tokens == SplitWords(TrimTitle(raw_title))
            emitted == SplitWords(formatted)
        IN  \A k \in 1..Len(tokens) : \A acronym \in AlwaysCaps :
                StrUpper(tokens[k]) = StrUpper(acronym) =>
                    (Len(emitted) = Len(tokens) /\ emitted[k] = acronym)

\* C8: _clean_title is idempotent.  rstrip('.') runs after the whitespace is
\* trimmed, so "a. ." comes out as "A." and that as "A": the property fails.
C8_Idempotent ==
    fmt_pc = "reformatted" => reformatted = formatted

(***************************************************************************)
(* SuggestTitlesView.post                                                  *)
(***************************************************************************)
\* if len(content) < 20
MinContentChars == 20

\* if len(content) > 5000
MaxRequestChars == 5000

\* request.data.get('max_suggestions', 3)
DefaultSuggestions == 3

\* min(int(...), 5)
MaxSuggestions == 5

\* most spaces around the content of a request
MaxPad == 2

\* largest integer sent as max_suggestions (the smallest is its negative)
MaxSent == 8

\* the value of a string of digits without leading zeros
RECURSIVE SignificantValue(_)
SignificantValue(ds) ==
    IF ds = <<>> THEN 0
    ELSE 10 * SignificantValue(SubSeq(ds, 1, Len(ds) - 1))
         + (IndexIn(ds[Len(ds)], Digits) - 1)

\* the value of a string of digits, for a value within the integers of TLC
DigitsValue(ds) ==
    LET nonzero == {k \in DOMAIN ds : ds[k] # "0"}
    IN  IF nonzero = {} THEN 0
        ELSE SignificantValue(SubSeq(ds, CHOOSE k \in nonzero :
                                            \A j \in nonzero : k <= j, Len(ds)))

\* the whitespace int() skips around the digits of a str: the separators
\* \x1c .. \x1f are not among it
IntWhitespace == {" ", "\t", "\n", "\r", "\f", "VT"}

\* int() raises ValueError for a str of more digits (the default of
\* sys.get_int_max_str_digits())
MaxStrDigits == 4300

\* index of the first character of s, at or after from, that is not in cs
RECURSIVE FirstNotIn(_, _, _)
FirstNotIn(s, from, cs) ==
    IF from <= Len(s) /\ s[from] \in cs THEN FirstNotIn(s, from + 1, cs)
    ELSE from

\* the str without the whitespace int() skips
IntStrip(s) ==
    LET a == FirstNotIn(s, 1, IntWhitespace)
        b == LastNotIn(s, Len(s), IntWhitespace)
    IN  IF a > b THEN <<>> ELSE SubSeq(s, a, b)

\* int(text) of a str: whitespace around it is ignored, a sign may precede the
\* digits, one underscore may stand between two digits, the digits are at
\* most MaxStrDigits; anything else raises ValueError
ParseInt(text) ==
    LET t == IntStrip(text)
        signed == t # <<>> /\ t[1] \in {"+", "-"}
        body == IF signed THEN Tail(t) ELSE t
        ds == SelectSeq(body, LAMBDA c : c # "_")
    IN  IF /\ body # <<>>
           /\ Len(ds) <= MaxStrDigits
           /\ \A k \in 1..Len(body) :
                 \/ body[k] \in Range(Digits)
                 \/ /\ body[k] = "_"
                    /\ k > 1 /\ k < Len(body)
                    /\ body[k - 1] \in Range(Digits)
                    /\ body[k + 1] \in Range(Digits)
        THEN [ok |-> TRUE,
              value |-> IF signed /\ t[1] = "-" THEN 0 - DigitsValue(ds)
                        ELSE DigitsValue(ds)]
        ELSE [ok |-> FALSE, value |-> 0]

\* int(request.data.get('max_suggestions', 3)): ok is FALSE when int raises
\* (ValueError for a str that is no integer, TypeError for null)
IntOf(ms) ==
    IF ms.kind = "absent" THEN [ok |-> TRUE, value |-> DefaultSuggestions]
    ELSE IF ms.kind = "int" THEN [ok |-> TRUE, value |-> ms.int]
    ELSE IF ms.kind = "str" THEN ParseInt(ms.text)
    ELSE [ok |-> FALSE, value |-> 0]

\* max_suggestions = min(int(...), 5)
Coerce(ms) == Min(IntOf(ms).value, MaxSuggestions)

\* content = request.data.get('content', '').strip()
TrimmedContent(req) == IF req.has_content THEN Strip(req.content) ELSE <<>>

\* none of the three validation tests rejects the content
ContentValid(req) ==
    LET c == TrimmedContent(req)
    IN  c # <<>> /\ ~(Len(c) < MinContentChars) /\ ~(Len(c) > MaxRequestChars)

Respond(status, success) == [status |-> status, success |-> success]

Pending == response = NoResponse

SentValues ==
    {[kind |-> "absent", int |-> 0, text |-> <<>>],
     [kind |-> "null", int |-> 0, text |-> <<>>]}
    \cup {[kind |-> "int", int |-> n, text |-> <<>>] : n \in (0 - MaxSent)..MaxSent}
    \cup {[kind |-> "str", int |-> 0, text |-> t] :
            t \in {<<"4">>, <<"-", "1">>, <<" ", "7", " ">>, <<"1", "2">>,
                   <<"a", "b", "c">>, <<"2", ".", "5">>, <<>>,
                   <<"1", "_", "0">>, <<"\r", "+", "0", "_", "2", "\f">>,
                   <<"1", "_", "_", "0">>, <<"_", "1">>, <<"1", "_">>,
                   <<"VT", "3">>, <<"FS", "3">>, <<"2", "US">>,
                   [k \in 1..(MaxStrDigits + 1) |-> "1"]}}

RequestLengths ==
    {0, 1, MinContentChars - 1, MinContentChars, MinContentChars + 1,
     MaxRequestChars - 1, MaxRequestChars, MaxRequestChars + 1}

\* a content of n letters after pad carriage returns and before pad spaces
PaddedContent(n, pad) ==
    [k \in 1..(n + 2 * pad) |->
        IF k <= pad THEN "\r" ELSE IF k > pad + n THEN " " ELSE "a"]

Requests ==
    {[has_content |-> FALSE, content |-> <<>>, max_suggestions |-> ms] :
        ms \in SentValues}
    \cup {[has_content |-> TRUE, content |-> PaddedContent(n, pad),
           max_suggestions |-> ms] :
            n \in RequestLengths, pad \in 0..MaxPad, ms \in SentValues}

ViewInit ==
    /\ request \in Requests
    /\ response = NoResponse
    /\ engine_calls = <<>>
    /\ GenIdle /\ FmtIdle /\ CleanIdle

\* int(...) raises before the content is validated: the outer except answers
\* 500
PostCoercionRaises ==
    /\ Pending
    /\ ~IntOf(request.max_suggestions).ok
    /\ response' = Respond(500, FALSE)
    /\ UNCHANGED <<request, engine_calls>>
    /\ UNCHANGED <<genVars, fmtVars, cleanVars>>

\* one of the three validation tests answers 400
PostRejects ==
    /\ Pending
    /\ IntOf(request.max_suggestions).ok
    /\ ~ContentValid(request)
    /\ response' = Respond(400, FALSE)
    /\ UNCHANGED <<request, engine_calls>>
    /\ UNCHANGED <<genVars, fmtVars, cleanVars>>

\* suggestions = title_generator.generate_titles(content, max_suggestions),
\* which catches its own exceptions; the answer is 200 with the suggestions
PostGenerates ==
    /\ Pending
    /\ IntOf(request.max_suggestions).ok
    /\ ContentValid(request)
    /\ engine_calls' = Append(engine_calls,
                              [content |-> TrimmedContent(request),
                               num_titles |-> Coerce(request.max_suggestions)])
    /\ response' = Respond(200, TRUE)
    /\ UNCHANGED request
    /\ UNCHANGED <<genVars, fmtVars, cleanVars>>

ViewNext ==
    \/ PostCoercionRaises
    \/ PostRejects
    \/ PostGenerates

SpecView == ViewInit /\ [][ViewNext]_vars

\* the num_titles the claim expects for a max_suggestions
ClaimedNumTitles(ms) ==
    IF ~IntOf(ms).ok \/ ms.kind = "absent" THEN 3
    ELSE IF IntOf(ms).value > 5 THEN 5
    ELSE IF IntOf(ms).value < 1 THEN 1
    ELSE IntOf(ms).value

\* C9: a request whose content is present with a trimmed length in
\* [20, 5000] invokes the engine with a num_titles in 1..5 (above 5 clamped
\* to 5, below 1 clamped to 1, absent or not an integer 3); a request that
\* fails the content validation is answered 400 without the engine being
\* invoked, whatever its max_suggestions.  The code has no lower clamp and
\* answers 500 when int() raises: the property fails.
C9_Coercion ==
    ~Pending =>
        LET valid == /\ request.has_content
                     /\ Len(Strip(request.content)) >= 20
                     /\ Len(Strip(request.content)) <= 5000
        IN  /\ valid => /\ Len(engine_calls) = 1
                        /\ engine_calls[1].num_titles \in 1..5
                        /\ engine_calls[1].num_titles
                             = ClaimedNumTitles(request.max_suggestions)
            /\ ~valid => (response.status = 400 /\ engine_calls = <<>>)

(***************************************************************************)
(* clean_content applied to contents around the length limit               *)
(***************************************************************************)
\* how far below and above the limit the lengths of the inputs range
CleanSpread == 5

Letters(c, n) == [k \in 1..n |-> c]

\* contents of about n characters, in the shapes that decide the truncation
CleanShapes(n) ==
    {Letters("a", n),
     Letters("a", n) \o <<".", " ", "b", "b">>,
     <<"a", "a", ".">> \o Letters("b", n),
     <<"a", "a", ".", " ", "b", ".">> \o Letters("c", n - 10) \o <<".", "d">>,
     <<"\r", "\n">> \o Letters("a", n) \o <<"\t", "\f">>,
     <<"LDQUO", "@">> \o Letters("a", n) \o <<"RDQUO">>,
     [k \in 1..n |-> IF k % 7 = 0 THEN " " ELSE "a"]}

CleanInputs ==
    UNION {CleanShapes(n) :
             n \in (MaxContentChars - CleanSpread)..(MaxContentChars + CleanSpread)}

CleanInit ==
    /\ raw_content \in CleanInputs
    /\ clean_out = <<>>
    /\ clean_pc = "start"
    /\ GenIdle /\ FmtIdle /\ ViewIdle

\* cleaned_content = self.clean_content(content)
CleanContent ==
    /\ clean_pc = "start"
    /\ clean_out' = clean_content(raw_content)
    /\ clean_pc' = "done"
    /\ UNCHANGED raw_content
    /\ UNCHANGED <<genVars, fmtVars, viewVars>>

CleanNext == CleanContent

SpecClean == CleanInit /\ [][CleanNext]_vars

\* C10: when the cleaned string is longer than 800 characters and its first
\* sentence alone is longer than 800 characters, the result is the first 800
\* characters of the cleaned string followed by "...".  The code slices the
\* variable it has just emptied, so the result is "..." alone: the property
\* fails.
C10_HardTruncation ==
    clean_pc = "done" =>
        LET pre == PreTruncation(raw_content)
        IN  (Len(pre) > 800 /\ Len(SplitOn(pre, ".")[1]) > 800) =>
                clean_out = SubSeq(pre, 1, 800) \o <<".", ".", ".">>

=============================================================================
